---- MODULE Spec2Model ----
(***************************************************************************)
(* scripts/fetch_publications.py: the ORCID -> CrossRef publication         *)
(* pipeline (main, parse_orcid_works, fetch_crossref_details,               *)
(* extract_authors_from_work_detail, save_publications).                    *)
(*                                                                          *)
(* Python values are encoded as follows.  A dict is a record whose DOMAIN   *)
(* is the dict's key set, so `k in d` is k \in DOMAIN d and d.get(k, v) is  *)
(* Get(d, k, v).  None is None in a string slot, NoneInt in an integer      *)
(* slot and NoneDict in a dict slot.  A list is a sequence.                 *)
(***************************************************************************)
EXTENDS Integers, Sequences, FiniteSets, TLC

VARIABLES
    pc,             \* position of main / parse_orcid_works
    data,           \* main: result of fetch_orcid_publications
    total_works,    \* parse_orcid_works: len(data['group'])
    idx,            \* parse_orcid_works: enumerate index of the current group
    group,          \* parse_orcid_works: the current element of data['group']
    publication,    \* parse_orcid_works: the record being built
    response,       \* the HTTP outcome of the current CrossRef request
    crossref_data,  \* parse_orcid_works: result of fetch_crossref_details
    work_detail,    \* parse_orcid_works: result of fetch_work_details
    publications,   \* parse_orcid_works / main: the list of retained records
    origin,         \* history: origin[k] is the idx whose record is publications[k]
    requests,       \* history: requests issued, [works, crossref, detail]; the
                    \* last two count the current group's requests only
    delay_owed,     \* history: a CrossRef request was issued and no sleep since
    returned,       \* main's return value (NoneInt until it returns)
    file            \* content of OUTPUT_FILE

vars == <<pc, data, total_works, idx, group, publication, response,
          crossref_data, work_detail, publications, origin, requests,
          delay_owed, returned, file>>

(***************************************************************************)
(* Bounds                                                                   *)
(***************************************************************************)
MaxGroups == 2

(***************************************************************************)
(* Python values                                                            *)
(***************************************************************************)
None == "None"
NoneInt == -1
NoneDict == [none |-> TRUE]
EmptyDict == [k \in {} |-> None]

Get(d, k, default) == IF k \in DOMAIN d THEN d[k] ELSE default

\* `{k: v} if cond else {}`: a key that is set only on some paths
Key(k, cond, v) == IF cond THEN (k :> v) ELSE EmptyDict

TruthyStr(s) == s # None /\ s # ""
TruthyInt(n) == n # NoneInt /\ n # 0
TruthyDict(d) == d # NoneDict /\ DOMAIN d # {}

\* a or b
OrStr(a, b) == IF TruthyStr(a) THEN a ELSE b
OrInt(a, b) == IF TruthyInt(a) THEN a ELSE b

\* ', '.join(names)
RECURSIVE Join(_)
Join(names) ==
    IF names = <<>> THEN ""
    ELSE IF Len(names) = 1 THEN names[1]
    ELSE names[1] \o ", " \o Join(Tail(names))

\* int(year) on the year strings of the model
ParseInt(s) ==
    CASE s = "2019" -> 2019
      [] s = "2020" -> 2020
      [] s = "0000" -> 0

DoiUrl(doi) == "https://doi.org/" \o doi

(***************************************************************************)
(* fetch_crossref_details                                                   *)
(***************************************************************************)
\* one entry of message['author']
AuthorName(author) ==
    LET given == Get(author, "given", "")
        family == Get(author, "family", "")
    IN  IF TruthyStr(given) /\ TruthyStr(family) THEN <<given \o " " \o family>>
        ELSE IF TruthyStr(family) THEN <<family>>
        ELSE <<>>

RECURSIVE AuthorNames(_)
AuthorNames(authors) ==
    IF authors = <<>> THEN <<>>
    ELSE AuthorName(Head(authors)) \o AuthorNames(Tail(authors))

CrossrefAuthors(message) ==
    LET authors == AuthorNames(message.author)
    IN  IF authors # <<>> THEN Join(authors) ELSE None

\* d.get('date-parts', [[]])[0]; IndexError when date-parts is the empty list
DateRaises(d) == Get(d, "date-parts", <<<<>>>>) = <<>>
PubDate(d) == Get(d, "date-parts", <<<<>>>>)[1]

\* which of the three date fields the if/elif chain reads
YearBranchKey(message) ==
    IF "published" \in DOMAIN message THEN "published"
    ELSE IF "published-print" \in DOMAIN message THEN "published-print"
    ELSE IF "published-online" \in DOMAIN message THEN "published-online"
    ELSE None

\* the `# Extract year` block: the keys it adds to result
CrossrefYear(message) ==
    LET k == YearBranchKey(message)
    IN  IF k = None THEN EmptyDict
        ELSE Key("year", PubDate(message[k]) # <<>>, PubDate(message[k])[1])

CrossrefYearRaises(message) ==
    LET k == YearBranchKey(message)
    IN  k # None /\ DateRaises(message[k])

CrossrefTypeMapping(pub_type) ==
    CASE pub_type = "journal-article" -> "Research Article"
      [] pub_type = "proceedings-article" -> "Conference Paper"
      [] pub_type = "book-chapter" -> "Book Chapter"
      [] pub_type = "book" -> "Book"
      [] pub_type = "dissertation" -> "Dissertation"
      [] OTHER -> "Publication"

IsPreprintTypeMutant(pub_type) == pub_type = "posted-content"

IsPreprintType(pub_type) == pub_type \in {"posted-content", "preprint"}

\* the body of the try block, from `message = data['message']` to `return result`
CrossrefResult(message) ==
    LET doi == Get(message, "DOI", None)
        url == OrStr(Get(message, "URL", None),
                     IF TruthyStr(doi) THEN DoiUrl(doi) ELSE None)
        pub_type == Get(message, "type", "")
    IN  Key("authors", "author" \in DOMAIN message, CrossrefAuthors(message))
        @@ Key("title", "title" \in DOMAIN message /\ message.title # <<>>,
               message.title[1])
        @@ Key("journal", "container-title" \in DOMAIN message
                          /\ message["container-title"] # <<>>,
               message["container-title"][1])
        @@ CrossrefYear(message)
        @@ [doi |-> doi,
            url |-> url,
            type |-> CrossrefTypeMapping(pub_type),
            is_preprint |-> IsPreprintType(pub_type),
            abstract |-> Get(message, "abstract", ""),
            citations |-> Get(message, "is-referenced-by-count", 0),
            publisher |-> Get(message, "publisher", ""),
            volume |-> Get(message, "volume", ""),
            issue |-> Get(message, "issue", ""),
            pages |-> Get(message, "page", "")]
        @@ Key("references_count", "reference" \in DOMAIN message,
               Len(message.reference))

\* resp is the outcome of requests.get: [ok |-> FALSE] when the request or
\* raise_for_status() raises, [ok |-> TRUE, json |-> data] otherwise
fetch_crossref_details(doi, resp) ==
    IF ~TruthyStr(doi) THEN NoneDict
    ELSE IF ~resp.ok THEN NoneDict
    ELSE IF "message" \notin DOMAIN resp.json THEN NoneDict
    ELSE IF CrossrefYearRaises(resp.json.message) THEN NoneDict
    ELSE CrossrefResult(resp.json.message)

(***************************************************************************)
(* extract_authors_from_work_detail                                         *)
(***************************************************************************)
\* one entry of contributors: the credit name it adds to authors, if any
CreditName(contributor) ==
    IF ~TruthyDict(contributor) THEN <<>>
    ELSE LET credit_name_data == Get(contributor, "credit-name", NoneDict)
         IN  IF ~TruthyDict(credit_name_data) THEN <<>>
             ELSE LET credit_name == Get(credit_name_data, "value", None)
                  IN  IF TruthyStr(credit_name) THEN <<credit_name>> ELSE <<>>

RECURSIVE CreditNames(_)
CreditNames(contributors) ==
    IF contributors = <<>> THEN <<>>
    ELSE CreditName(Head(contributors)) \o CreditNames(Tail(contributors))

JoinAuthorsMutant(authors) == authors[1]

JoinAuthors(authors) == Join(authors)

extract_authors_from_work_detail(detail) ==
    IF ~TruthyDict(detail) THEN None
    ELSE LET contributors_data == Get(detail, "contributors", NoneDict)
         IN  IF ~TruthyDict(contributors_data) THEN None
             ELSE LET contributors == Get(contributors_data, "contributor", <<>>)
                      authors == CreditNames(contributors)
                  IN  IF contributors = <<>> THEN None
                      ELSE IF authors # <<>> THEN JoinAuthors(authors)
                      ELSE None

(***************************************************************************)
(* parse_orcid_works: reading one work summary                              *)
(***************************************************************************)
SummaryTitle(work_summary) ==
    Get(Get(Get(work_summary, "title", EmptyDict), "title", EmptyDict),
        "value", "Untitled")

SummaryYear(work_summary) ==
    LET pub_date == Get(work_summary, "publication-date", NoneDict)
    IN  IF TruthyDict(pub_date)
        THEN Get(Get(pub_date, "year", EmptyDict), "value", None)
        ELSE None

SummaryJournal(work_summary) ==
    LET journal_title == Get(work_summary, "journal-title", NoneDict)
    IN  IF TruthyDict(journal_title) THEN Get(journal_title, "value", "") ELSE ""

SummaryType(work_summary) == Get(work_summary, "type", "journal-article")

OrcidTypeMapping(pub_type) ==
    CASE pub_type = "journal-article" -> "Research Article"
      [] pub_type = "conference-paper" -> "Conference Paper"
      [] pub_type = "book" -> "Book"
      [] pub_type = "book-chapter" -> "Book Chapter"
      [] pub_type = "dissertation" -> "Dissertation"
      [] OTHER -> "Publication"

\* the `for ext_id in external_ids` loop: the first external id of type doi
RECURSIVE FirstDoi(_)
FirstDoi(external_ids) ==
    IF external_ids = <<>> THEN None
    ELSE IF TruthyDict(Head(external_ids))
            /\ Get(Head(external_ids), "external-id-type", None) = "doi"
    THEN Get(Head(external_ids), "external-id-value", None)
    ELSE FirstDoi(Tail(external_ids))

SummaryDoi(work_summary) ==
    LET external_ids == Get(work_summary, "external-ids", EmptyDict)
    IN  IF TruthyDict(external_ids)
        THEN FirstDoi(Get(external_ids, "external-id", <<>>))
        ELSE None

SummaryUrl(work_summary) ==
    LET url_data == Get(work_summary, "url", NoneDict)
    IN  IF TruthyDict(url_data) THEN Get(url_data, "value", None) ELSE None

SummaryPutCode(work_summary) == Get(work_summary, "put-code", NoneInt)

\* `publication = {...}` initialised with ORCID data
Provisional(work_summary) ==
    LET year == SummaryYear(work_summary)
        doi == SummaryDoi(work_summary)
    IN  [title |-> SummaryTitle(work_summary),
         authors |-> "Authors not available",
         journal |-> SummaryJournal(work_summary),
         year |-> IF TruthyStr(year) THEN ParseInt(year) ELSE NoneInt,
         doi |-> doi,
         url |-> OrStr(SummaryUrl(work_summary),
                       IF TruthyStr(doi) THEN DoiUrl(doi) ELSE None),
         type |-> OrcidTypeMapping(SummaryType(work_summary)),
         citations |-> 0,
         abstract |-> "",
         publisher |-> "",
         volume |-> "",
         issue |-> "",
         pages |-> "",
         references_count |-> 0]

MergeMutant(pub, cr) ==
    [pub EXCEPT !.title = OrStr(Get(cr, "title", None), pub.title),
                !.authors = OrStr(Get(cr, "authors", None), pub.authors),
                !.journal = OrStr(Get(cr, "journal", None),
                                  OrStr(Get(cr, "publisher", None), pub.journal)),
                !.year = OrInt(pub.year, Get(cr, "year", NoneInt)),
                !.doi = OrStr(Get(cr, "doi", None), pub.doi),
                !.url = OrStr(Get(cr, "url", None), pub.url),
                !.type = OrStr(Get(cr, "type", None), pub.type),
                !.citations = Get(cr, "citations", 0),
                !.abstract = Get(cr, "abstract", ""),
                !.publisher = Get(cr, "publisher", ""),
                !.volume = Get(cr, "volume", ""),
                !.issue = Get(cr, "issue", ""),
                !.pages = Get(cr, "pages", ""),
                !.references_count = Get(cr, "references_count", 0)]

\* `publication.update({...})`: merge CrossRef data
Merge(pub, cr) ==
    [title |-> OrStr(Get(cr, "title", None), pub.title),
     authors |-> OrStr(Get(cr, "authors", None), pub.authors),
     journal |-> OrStr(Get(cr, "journal", None),
                       OrStr(Get(cr, "publisher", None), pub.journal)),
     year |-> OrInt(Get(cr, "year", NoneInt), pub.year),
     doi |-> OrStr(Get(cr, "doi", None), pub.doi),
     url |-> OrStr(Get(cr, "url", None), pub.url),
     type |-> OrStr(Get(cr, "type", None), pub.type),
     citations |-> Get(cr, "citations", 0),
     abstract |-> Get(cr, "abstract", ""),
     publisher |-> Get(cr, "publisher", ""),
     volume |-> Get(cr, "volume", ""),
     issue |-> Get(cr, "issue", ""),
     pages |-> Get(cr, "pages", ""),
     references_count |-> Get(cr, "references_count", 0)]

RetainMutant(title, year) == TruthyStr(title)

\* `if title and year:` on the ORCID title and year strings
Retain(title, year) == TruthyStr(title) /\ TruthyStr(year)

AppendPublicationMutant(list, item) == <<item>> \o list

\* publications.append(publication)
AppendPublication(list, item) == Append(list, item)

(***************************************************************************)
(* Inputs: what the ORCID and CrossRef endpoints may answer                 *)
(***************************************************************************)
\* an ORCID work summary; None / NoneInt leaves the key out
Summary(title, year, journal, type, external_ids, url, put_code) ==
    Key("put-code", put_code # NoneInt, put_code)
    @@ Key("title", title # None, [title |-> [value |-> title]])
    @@ Key("publication-date", year # None, [year |-> [value |-> year]])
    @@ Key("journal-title", journal # None, [value |-> journal])
    @@ Key("type", type # None, type)
    @@ ("external-ids" :> ("external-id" :> external_ids))
    @@ Key("url", url # None, [value |-> url])

ExternalId(type, value) ==
    ("external-id-type" :> type) @@ ("external-id-value" :> value)

\* journal, type and url of a summary are drawn together
Styles ==
    {[journal |-> "J. Foo", type |-> "journal-article", url |-> None],
     [journal |-> None, type |-> "report", url |-> "http://u"]}

PreprintStyle == [journal |-> "arXiv", type |-> "preprint", url |-> None]

NoIds == <<ExternalId("pmid", "42")>>
DoiIds == <<ExternalId("pmid", "42"), ExternalId("doi", "10.1/x"),
            ExternalId("doi", "10.1/y")>>

Summaries ==
    {Summary(t, y, st.journal, st.type, ids, st.url, pcd) :
        t \in {"", "Foo"}, y \in {None, "2020"},
        st \in Styles \cup {PreprintStyle}, ids \in {NoIds, DoiIds},
        pcd \in {NoneInt, 7}}

Groups ==
    {("work-summary" :> <<>>)} \cup {("work-summary" :> <<s>>) : s \in Summaries}

FullMessage ==
    [author |-> <<[given |-> "A", family |-> "B"], [family |-> "C"],
                  [given |-> "D"]>>,
     title |-> <<"Bar">>,
     DOI |-> "10.1/X",
     URL |-> "https://x",
     type |-> "journal-article",
     abstract |-> "abs",
     publisher |-> "P",
     volume |-> "1",
     issue |-> "2",
     page |-> "3-4",
     reference |-> <<"r1", "r2">>]
    @@ ("container-title" :> <<"J. Bar">>)
    @@ ("published-print" :> ("date-parts" :> <<<<2021, 6>>>>))
    @@ ("is-referenced-by-count" :> 5)

SparseMessage == [publisher |-> "P", author |-> <<>>]

Ok(json) == [ok |-> TRUE, json |-> json]

CrossrefResponses ==
    {[ok |-> FALSE],
     Ok([status |-> "error"]),
     Ok([message |-> FullMessage]),
     Ok([message |-> SparseMessage]),
     Ok([message |-> [type |-> "posted-content", title |-> <<"Bar">>]]),
     Ok([message |-> [type |-> "preprint"]
                     @@ ("published" :> ("date-parts" :> <<<<2021, 6>>>>))])}

Contributor(name) == ("credit-name" :> [value |-> name])

\* fetch_work_details: NoneDict when the request fails
WorkDetails ==
    {NoneDict,
     [contributors |-> [contributor |-> <<>>]],
     [contributors |-> [contributor |-> <<Contributor(""), NoneDict>>]],
     [contributors |->
        [contributor |-> <<Contributor("A. B"), NoneDict, Contributor("C. D")>>]]}

\* fetch_orcid_publications: NoneDict when the request fails; the groups of a
\* response are drawn one by one as the loop reaches them, data.group holds
\* their number
WorksResults ==
    {NoneDict, EmptyDict, [path |-> "/works"]}
    \cup {[group |-> n] : n \in 0..MaxGroups}

(***************************************************************************)
(* Inputs of the single-work specification                                  *)
(***************************************************************************)
EnrichSummaries ==
    {Summary(t, y, st.journal, st.type, DoiIds, st.url, 7) :
        t \in {None, "", "Foo"}, y \in {None, "2019", "0000"}, st \in Styles}

EnrichGroups == {("work-summary" :> <<s>>) : s \in EnrichSummaries}

Opt(piece) == {EmptyDict, piece}

DatePieces(k, y) ==
    {EmptyDict, (k :> EmptyDict), (k :> ("date-parts" :> <<<<y, 6>>>>))}

DateMessages ==
    {[type |-> "journal-article"] @@ p @@ pp @@ po :
        p \in DatePieces("published", 2021)
              \cup {("published" :> ("date-parts" :> <<>>))},
        pp \in DatePieces("published-print", 2022),
        po \in DatePieces("published-online", 2023)}

FieldMessages ==
    {a @@ t @@ j @@ y @@ d @@ u @@ ty @@ pb @@ c @@ b :
        a \in {EmptyDict, [author |-> <<>>], [author |-> FullMessage.author]},
        t \in Opt([title |-> <<"Bar">>]),
        j \in Opt(("container-title" :> <<"J. Bar">>)),
        y \in Opt(("published" :> ("date-parts" :> <<<<2021, 6>>>>))),
        d \in Opt([DOI |-> "10.1/X"]),
        u \in Opt([URL |-> "https://x"]),
        ty \in {EmptyDict, [type |-> "book-chapter"], [type |-> "posted-content"]},
        pb \in Opt([publisher |-> "P"]),
        c \in Opt([abstract |-> "abs"] @@ ("is-referenced-by-count" :> 5)),
        b \in Opt([volume |-> "1", issue |-> "2", page |-> "3-4",
                   reference |-> <<"r1", "r2">>])}

EnrichResponses ==
    {[ok |-> FALSE]} \cup {Ok([message |-> m]) : m \in DateMessages \cup FieldMessages}

(***************************************************************************)
(* main and parse_orcid_works                                               *)
(***************************************************************************)
Existing == [existing |-> TRUE]
Truncated == [truncated |-> TRUE]

\* save_publications: the envelope written to OUTPUT_FILE
Envelope(pubs) ==
    [last_updated |-> "utcnow", count |-> Len(pubs), publications |-> pubs]

\* group.get('work-summary', [])
SummaryList(g) == Get(g, "work-summary", <<>>)

\* the work summary the loop body reads, once the two `continue` tests passed
WorkSummary(g) == SummaryList(g)[1]

HasSummary(g) == SummaryList(g) # <<>> /\ TruthyDict(SummaryList(g)[1])

\* where the body goes after `publication = {...}`
AfterProvisional(doi, put_code) ==
    IF TruthyStr(doi) THEN "crossref"
    ELSE IF TruthyInt(put_code) THEN "detail"
    ELSE "append"

AfterCrossrefMutant(cr, put_code) ==
    IF TruthyDict(cr) /\ Get(cr, "is_preprint", FALSE) THEN "loop"
    ELSE IF TruthyInt(put_code) THEN "detail"
    ELSE "sleep"

\* where the body goes after `crossref_data = fetch_crossref_details(doi)`
AfterCrossref(cr, put_code) ==
    IF TruthyDict(cr)
    THEN IF Get(cr, "is_preprint", FALSE) THEN "loop" ELSE "sleep"
    ELSE IF TruthyInt(put_code) THEN "detail"
    ELSE "sleep"

MainResultMutant(pubs) == 0

\* main, after parse_orcid_works: 1 when `not publications`, else save and 0
MainResult(pubs) == IF pubs = <<>> THEN 1 ELSE 0

Init ==
    /\ pc = "main"
    /\ data = NoneDict
    /\ total_works = 0
    /\ idx = 0
    /\ group = NoneDict
    /\ publication = NoneDict
    /\ response = NoneDict
    /\ crossref_data = NoneDict
    /\ work_detail = NoneDict
    /\ publications = <<>>
    /\ origin = <<>>
    /\ requests = [works |-> 0, crossref |-> 0, detail |-> 0]
    /\ delay_owed = FALSE
    /\ returned = NoneInt
    /\ file = Existing

\* main: fetch_orcid_publications(ORCID_ID), `if not data: return 1`, and the
\* early return of parse_orcid_works
FetchOrcid ==
    /\ pc = "main"
    /\ \E d \in WorksResults :
        /\ data' = d
        /\ IF ~TruthyDict(d) \/ "group" \notin DOMAIN d
           THEN /\ pc' = "exit"
                /\ returned' = 1
                /\ total_works' = total_works
           ELSE /\ pc' = "loop"
                /\ returned' = returned
                /\ total_works' = d.group
    /\ requests' = [requests EXCEPT !.works = @ + 1]
    /\ UNCHANGED <<idx, group, publication, response, crossref_data,
                   work_detail, publications, origin, delay_owed, file>>

\* one pass of the for loop from its head to the first external request.
\* The locals of the previous pass are never read before they are assigned
\* again, and start each pass cleared.
LoopStep(g) ==
    /\ pc = "loop"
    /\ idx < total_works
    /\ idx' = idx + 1
    /\ group' = g
    /\ response' = NoneDict
    /\ crossref_data' = NoneDict
    /\ work_detail' = NoneDict
    /\ requests' = [requests EXCEPT !.crossref = 0, !.detail = 0]
    /\ IF ~HasSummary(g) \/ SummaryType(WorkSummary(g)) = "preprint"
       THEN /\ pc' = "loop"
            /\ publication' = NoneDict
       ELSE /\ pc' = AfterProvisional(SummaryDoi(WorkSummary(g)),
                                      SummaryPutCode(WorkSummary(g)))
            /\ publication' = Provisional(WorkSummary(g))
    /\ UNCHANGED <<data, total_works, publications, origin, delay_owed,
                   returned, file>>

LoopNext == \E g \in Groups : LoopStep(g)

\* `crossref_data = fetch_crossref_details(doi)` and the merge or skip
CrossrefStep(resp) ==
    /\ pc = "crossref"
    /\ LET ws == WorkSummary(group)
           cr == fetch_crossref_details(SummaryDoi(ws), resp)
       IN  /\ response' = resp
           /\ crossref_data' = cr
           /\ publication' =
                IF TruthyDict(cr) /\ ~Get(cr, "is_preprint", FALSE)
                THEN Merge(publication, cr)
                ELSE publication
           /\ pc' = AfterCrossref(cr, SummaryPutCode(ws))
    /\ requests' = [requests EXCEPT !.crossref = @ + 1]
    /\ delay_owed' = TRUE
    /\ UNCHANGED <<data, total_works, idx, group, work_detail, publications,
                   origin, returned, file>>

CrossrefCall == \E resp \in CrossrefResponses : CrossrefStep(resp)

\* `work_detail = fetch_work_details(orcid_id, put_code)` and the author fallback
DetailCall ==
    /\ pc = "detail"
    /\ \E detail \in WorkDetails :
        LET authors == extract_authors_from_work_detail(detail)
        IN  /\ work_detail' = detail
            /\ publication' =
                 IF TruthyStr(authors)
                 THEN [publication EXCEPT !.authors = authors]
                 ELSE publication
    /\ pc' = IF TruthyStr(SummaryDoi(WorkSummary(group))) THEN "sleep" ELSE "append"
    /\ requests' = [requests EXCEPT !.detail = @ + 1]
    /\ UNCHANGED <<data, total_works, idx, group, response, crossref_data,
                   publications, origin, delay_owed, returned, file>>

\* time.sleep(0.15)
Sleep ==
    /\ pc = "sleep"
    /\ pc' = "append"
    /\ delay_owed' = FALSE
    /\ UNCHANGED <<data, total_works, idx, group, publication, response,
                   crossref_data, work_detail, publications, origin, requests,
                   returned, file>>

\* `if title and year: publications.append(publication)`
AppendStep ==
    /\ pc = "append"
    /\ pc' = "loop"
    /\ IF Retain(SummaryTitle(WorkSummary(group)), SummaryYear(WorkSummary(group)))
       THEN /\ publications' = AppendPublication(publications, publication)
            /\ origin' = AppendPublication(origin, idx)
       ELSE UNCHANGED <<publications, origin>>
    /\ UNCHANGED <<data, total_works, idx, group, publication, response,
                   crossref_data, work_detail, requests, delay_owed, returned,
                   file>>

\* parse_orcid_works returns; main: `if not publications: return 1`
LoopEnd ==
    /\ pc = "loop"
    /\ idx = total_works
    /\ IF MainResult(publications) = 1
       THEN /\ pc' = "exit"
            /\ returned' = 1
       ELSE /\ pc' = "save"
            /\ returned' = returned
    /\ UNCHANGED <<data, total_works, idx, group, publication, response,
                   crossref_data, work_detail, publications, origin, requests,
                   delay_owed, file>>

\* save_publications(publications, OUTPUT_FILE) and `return 0`
Save ==
    /\ pc = "save"
    /\ pc' = "exit"
    /\ file' = Envelope(publications)
    /\ returned' = 0
    /\ UNCHANGED <<data, total_works, idx, group, publication, response,
                   crossref_data, work_detail, publications, origin, requests,
                   delay_owed>>

\* save_publications raises (mkdir, open or write fails): main does not return
SaveFails ==
    /\ pc = "save"
    /\ pc' = "raised"
    /\ file' \in {file, Truncated}
    /\ UNCHANGED <<data, total_works, idx, group, publication, response,
                   crossref_data, work_detail, publications, origin, requests,
                   delay_owed, returned>>

Next ==
    \/ FetchOrcid
    \/ LoopNext
    \/ CrossrefCall
    \/ DetailCall
    \/ Sleep
    \/ AppendStep
    \/ LoopEnd
    \/ Save
    \/ SaveFails

Spec == Init /\ [][Next]_vars

(***************************************************************************)
(* parse_orcid_works on a response of one work with a DOI, over the wider   *)
(* input sets                                                               *)
(***************************************************************************)
InitEnrich ==
    /\ pc = "loop"
    /\ data = [group |-> 1]
    /\ total_works = 1
    /\ idx = 0
    /\ group = NoneDict
    /\ publication = NoneDict
    /\ response = NoneDict
    /\ crossref_data = NoneDict
    /\ work_detail = NoneDict
    /\ publications = <<>>
    /\ origin = <<>>
    /\ requests = [works |-> 1, crossref |-> 0, detail |-> 0]
    /\ delay_owed = FALSE
    /\ returned = NoneInt
    /\ file = Existing

EnrichLoopNext == \E g \in EnrichGroups : LoopStep(g)

EnrichCrossrefCall == \E resp \in EnrichResponses : CrossrefStep(resp)

NextEnrich ==
    \/ EnrichLoopNext
    \/ EnrichCrossrefCall
    \/ DetailCall
    \/ Sleep
    \/ AppendStep

SpecEnrich == InitEnrich /\ [][NextEnrich]_vars

(***************************************************************************)
(* Properties                                                               *)
(***************************************************************************)
\* the loop body has run to its end (or to a `continue`) for group idx
Processed == pc = "loop" /\ idx > 0

\* the records of publications that come from group idx
Emitted == {k \in 1..Len(origin) : origin[k] = idx}

OrcidPreprint == HasSummary(group) /\ SummaryType(WorkSummary(group)) = "preprint"

\* the CrossRef request of this pass was answered with a message
Answered ==
    /\ response # NoneDict
    /\ response.ok
    /\ "message" \in DOMAIN response.json

\* the type CrossRef returned in this pass
ReturnedType == Get(response.json.message, "type", "")

StrFields ==
    {"title", "authors", "journal", "doi", "url", "type", "abstract",
     "publisher", "volume", "issue", "pages"}
IntFields == {"year", "citations", "references_count"}

\* CrossRef supplies a truthy value for field f
Supplies(cr, f) ==
    /\ f \in DOMAIN cr
    /\ IF f \in IntFields THEN TruthyInt(cr[f]) ELSE TruthyStr(cr[f])

\* the merge has just been applied to the record of group idx
Merged == pc = "sleep" /\ TruthyDict(crossref_data)

\* field f of the merged record follows the overlay rule
Overlaid(f) ==
    LET prov == Provisional(WorkSummary(group))
    IN  /\ Supplies(crossref_data, f) => publication[f] = crossref_data[f]
        /\ f \notin DOMAIN crossref_data => publication[f] = prov[f]

\* C1 (as claimed): every group that is not a preprint (ORCID type or CrossRef
\* is_preprint) and has a title and a year, from ORCID or from CrossRef after
\* the overlay, contributes exactly one Publication.
C1_CompleteWorkEmitted ==
    (/\ Processed
     /\ HasSummary(group)
     /\ ~OrcidPreprint
     /\ ~(TruthyDict(crossref_data) /\ Get(crossref_data, "is_preprint", FALSE))
     /\ \/ TruthyStr(SummaryTitle(WorkSummary(group)))
        \/ Supplies(crossref_data, "title")
     /\ \/ TruthyStr(SummaryYear(WorkSummary(group)))
        \/ Supplies(crossref_data, "year"))
    => Cardinality(Emitted) = 1

\* C2: no Publication comes from a group whose ORCID type is preprint, nor from
\* a group with a DOI whose CrossRef lookup returned type posted-content or
\* preprint.
C2_PreprintsExcluded ==
    (/\ Processed
     /\ \/ OrcidPreprint
        \/ /\ TruthyDict(crossref_data)
           /\ Answered
           /\ ReturnedType \in {"posted-content", "preprint"})
    => Emitted = {}

C2_Witness ==
    /\ Processed
    /\ ~OrcidPreprint
    /\ Answered
    /\ ReturnedType = "preprint"
    /\ TruthyStr(SummaryTitle(WorkSummary(group)))
    /\ TruthyStr(SummaryYear(WorkSummary(group)))
    /\ Len(publications) = 1

\* C3 (as claimed): after the merge every field carries CrossRef's value when
\* CrossRef supplies a truthy one, and the ORCID value when CrossRef does not
\* supply the field.
C3_OverlayEveryField ==
    Merged => \A f \in StrFields \cup IntFields : Overlaid(f)

\* C3 (amended): the overlay rule holds for every field but journal; journal
\* is CrossRef's journal when truthy, else CrossRef's publisher when truthy,
\* else the ORCID journal.
C3_OverlayButJournal ==
    Merged =>
        /\ \A f \in (StrFields \cup IntFields) \ {"journal"} : Overlaid(f)
        /\ publication.journal =
             IF Supplies(crossref_data, "journal") THEN crossref_data.journal
             ELSE IF Supplies(crossref_data, "publisher")
             THEN crossref_data.publisher
             ELSE SummaryJournal(WorkSummary(group))

C3_Witness ==
    /\ Merged
    /\ Supplies(crossref_data, "year")
    /\ TruthyStr(SummaryYear(WorkSummary(group)))
    /\ ~Supplies(crossref_data, "journal")
    /\ Supplies(crossref_data, "publisher")
    /\ TruthyStr(SummaryJournal(WorkSummary(group)))
    /\ ~Supplies(crossref_data, "title")
    /\ publication.title = "Foo"

\* C4: main returns 0 exactly when a publication was obtained and the file was
\* written; it returns 1, with the file untouched, when the works fetch fails
\* or no publication results; a failed CrossRef or work-detail request does
\* not drop a work and so never causes 1.
C4_ExitCode ==
    /\ returned \in {NoneInt, 0, 1}
    /\ returned = 0 <=>
         (pc = "exit" /\ publications # <<>> /\ file = Envelope(publications))
    /\ (pc = "exit" /\ (~TruthyDict(data) \/ publications = <<>>)) =>
         (returned = 1 /\ file = Existing)
    /\ returned = 1 => (pc = "exit" /\ publications = <<>>)
    /\ (/\ Processed
        /\ HasSummary(group)
        /\ ~OrcidPreprint
        /\ TruthyStr(SummaryTitle(WorkSummary(group)))
        /\ TruthyStr(SummaryYear(WorkSummary(group)))
        /\ ~TruthyDict(crossref_data)) => Emitted # {}

C4_Witness ==
    /\ pc = "exit"
    /\ returned = 0
    /\ response = [ok |-> FALSE]
    /\ work_detail = NoneDict
    /\ requests.detail = 1
    /\ file.count = 1

\* C5: publications is an order-preserving subsequence of the groups: records
\* appear in increasing group order, a group contributes at most one record,
\* and the record of the group just processed is the last one.
C5_GroupOrder ==
    /\ Len(origin) = Len(publications)
    /\ \A k \in 1..Len(origin) : origin[k] \in 1..idx
    /\ \A k, l \in 1..Len(origin) : k < l => origin[k] < origin[l]
    /\ (Processed /\ Emitted # {}) =>
         /\ origin[Len(origin)] = idx
         /\ publications[Len(publications)] = publication
    /\ (pc = "exit" /\ returned = 0) => file.publications = publications

C5_Witness ==
    /\ pc = "exit"
    /\ origin = <<1, 2>>
    /\ publications[1] # publications[2]

\* the credit names of a work detail, in order
C6_Names(detail) ==
    IF ~TruthyDict(detail) THEN <<>>
    ELSE CreditNames(detail.contributors.contributor)

\* C6: when the CrossRef lookup yields nothing (failure, or no DOI) and the
\* work is retained, the record is the ORCID provisional record, except that
\* authors is the comma-joined credit names of the work detail when that call
\* was made, succeeded and yields a name, and the sentinel otherwise.
C6_FallbackRecord ==
    (/\ Processed
     /\ Emitted # {}
     /\ ~TruthyDict(crossref_data)) =>
        LET p == publications[Len(publications)]
            names == C6_Names(work_detail)
        IN  /\ p = [Provisional(WorkSummary(group)) EXCEPT !.authors = p.authors]
            /\ p.citations = 0 /\ p.references_count = 0
            /\ p.abstract = "" /\ p.publisher = "" /\ p.volume = ""
            /\ p.issue = "" /\ p.pages = ""
            /\ p.authors = IF requests.detail = 1 /\ names # <<>>
                           THEN Join(names)
                           ELSE "Authors not available"

C6_Witness ==
    /\ Processed
    /\ Emitted # {}
    /\ response = [ok |-> FALSE]
    /\ publications[Len(publications)].authors = "A. B, C. D"
    /\ publications[Len(publications)].doi = "10.1/x"

\* C7 (as claimed, in full): whenever an external request is about to be
\* issued, the delay that follows the last CrossRef request has been taken.
C7_DelayBeforeNextRequest ==
    pc \in {"crossref", "detail"} => ~delay_owed

\* C7 (as claimed, its conclusion): no two CrossRef requests are issued without
\* a delay between them: when a CrossRef request is about to be issued, the
\* delay that follows the previous one has been taken.
C7_DelayBetweenCrossrefRequests ==
    pc = "crossref" => ~delay_owed

\* C8: the works endpoint is requested once; per group at most one CrossRef
\* and one work-detail request; a work-detail request only when there is no
\* DOI or the CrossRef lookup yielded nothing, and none for an ORCID preprint.
C8_NoRetry ==
    /\ requests.works = IF pc = "main" THEN 0 ELSE 1
    /\ requests.crossref <= 1
    /\ requests.detail <= 1
    /\ requests.crossref = 1 =>
         (~OrcidPreprint /\ TruthyStr(SummaryDoi(WorkSummary(group))))
    /\ requests.detail = 1 =>
         /\ ~OrcidPreprint
         /\ ~TruthyDict(crossref_data)
         /\ requests.crossref =
              IF TruthyStr(SummaryDoi(WorkSummary(group))) THEN 1 ELSE 0
    /\ OrcidPreprint => (requests.crossref = 0 /\ requests.detail = 0)

C8_Witness ==
    /\ pc = "exit"
    /\ idx = 2
    /\ requests = [works |-> 1, crossref |-> 1, detail |-> 1]

\* C9: every retained record has a non-empty title and a non-null year, and a
\* record whose title or year is missing after the merge is not appended.
C9_RetainedComplete ==
    /\ \A k \in 1..Len(publications) :
         /\ TruthyStr(publications[k].title)
         /\ publications[k].year # NoneInt
    /\ (/\ Processed
        /\ publication # NoneDict
        /\ (~TruthyStr(publication.title) \/ publication.year = NoneInt))
       => Emitted = {}

C9_Witness ==
    /\ Processed
    /\ publication # NoneDict
    /\ publication.year = NoneInt
    /\ TruthyStr(publication.title)
    /\ Len(publications) = 1
    /\ publications[1].title = "Bar"

\* the date field k of message m provides a date
C10_Provides(m, k) == k \in DOMAIN m /\ PubDate(m[k]) # <<>>

\* C10 (as claimed): the year is the first date-part of published if that
\* provides one, else of published-print if that provides one, else of
\* published-online; it is unset only when none of the three provides a date.
C10_YearPriority ==
    (TruthyDict(crossref_data) /\ Answered) =>
        LET m == response.json.message
            k == IF C10_Provides(m, "published") THEN "published"
                 ELSE IF C10_Provides(m, "published-print") THEN "published-print"
                 ELSE IF C10_Provides(m, "published-online") THEN "published-online"
                 ELSE None
        IN  IF k = None THEN "year" \notin DOMAIN crossref_data
            ELSE /\ "year" \in DOMAIN crossref_data
                 /\ crossref_data.year = PubDate(m[k])[1]

====
